---- MODULE Spec2Model ----
(***************************************************************************)
(* Model of the Pebble watchface in src/src/c/main.c: the display state    *)
(* (time, date and weather text, stored battery level, battery bar,        *)
(* bluetooth icon), the handles created in main_window_load, and the       *)
(* handlers the host event loop calls one at a time.                       *)
(*                                                                         *)
(* Text is modelled by TLA+ strings; a C buffer of n bytes holds at most   *)
(* n-1 characters.  The SDK is modelled only at the calls the program      *)
(* makes: window_stack_push runs the window's load handler, window_destroy *)
(* runs its unload handler, and the event loop delivers callbacks between  *)
(* init and deinit.                                                        *)
(***************************************************************************)
EXTENDS Integers, Sequences, FiniteSets, TLC

VARIABLES
    pc,                    \* position in main(): "start", "running", "exited"
    clock,                 \* the wall clock, as the struct tm localtime returns
    app,                   \* the program's statics and what it has put on screen
    outstanding,           \* outbound requests sent and not yet resolved by a callback
    disconnected_reports,  \* history: bluetooth_callback(false) invocations so far
    last_event             \* history: the handler that ran last, with its input

vars == <<pc, clock, app, outstanding, disconnected_reports, last_event>>

(***************************************************************************)
(* Bounds of the model (not program constants).                            *)
(***************************************************************************)
MaxVibes == 2
MaxSends == 2

(***************************************************************************)
(* Program constants.                                                      *)
(***************************************************************************)
TimeBufferSize == 8
DateBufferSize == 16
TemperatureBufferSize == 8
ConditionsBufferSize == 32
WeatherLayerBufferSize == 32
BatteryLayerWidth == 115
BarScale == 114
WeatherInterval == 30

Min(a, b) == IF a <= b THEN a ELSE b

(***************************************************************************)
(* Text formatting, as the C library does it.                              *)
(***************************************************************************)
Digits == <<"0", "1", "2", "3", "4", "5", "6", "7", "8", "9">>

RECURSIVE NatStr(_)
\* printf "%d" of a non-negative int
NatStr(n) == IF n < 10 THEN Digits[n + 1] ELSE NatStr(n \div 10) \o Digits[(n % 10) + 1]

\* printf "%d"
IntStr(n) == IF n < 0 THEN "-" \o NatStr(0 - n) ELSE NatStr(n)

\* snprintf(buf, size, ...): at most size-1 characters of the formatted text are kept
Snprintf(size, text) == SubSeq(text, 1, Min(Len(text), size - 1))

\* strftime fields %H %I %M: two digits, zero padded
TwoDigits(n) == Digits[(n \div 10) + 1] \o Digits[(n % 10) + 1]

\* strftime field %e: day of month, padded with a space to two characters
SpacePadded(n) == IF n < 10 THEN " " \o Digits[n + 1] ELSE TwoDigits(n)

\* strftime field %I: hour on the 12-hour clock, 01..12
Hour12(h) == IF h % 12 = 0 THEN 12 ELSE h % 12

\* strftime field %a, indexed by tm_wday (0 = Sunday)
WeekdayAbbr(wday) == <<"Sun", "Mon", "Tue", "Wed", "Thu", "Fri", "Sat">>[wday + 1]

\* strftime field %b, indexed by tm_mon (0 = January)
MonthAbbr(mon) ==
    <<"Jan", "Feb", "Mar", "Apr", "May", "Jun",
      "Jul", "Aug", "Sep", "Oct", "Nov", "Dec">>[mon + 1]

\* strftime(buf, size, ...): the text when it fits with its terminator.  When it
\* does not fit strftime returns 0 and leaves the buffer unspecified; the texts of
\* the two formats used are 5 and 10 characters long, so that branch is never taken.
Strftime(size, text) == IF Len(text) + 1 <= size THEN text ELSE ""

\* strftime(s_buffer, 8, is24h ? "%H:%M" : "%I:%M", tick_time)
FormatTime(t, is24h) ==
    Strftime(TimeBufferSize,
             TwoDigits(IF is24h THEN t.hour ELSE Hour12(t.hour)) \o ":" \o TwoDigits(t.min))

\* Faulty variant of FormatDate: "%d" in place of "%e", the day zero padded
FormatDate_zero_padded(t) ==
    Strftime(DateBufferSize,
             WeekdayAbbr(t.wday) \o " " \o MonthAbbr(t.mon) \o " " \o TwoDigits(t.mday))

\* strftime(date_buffer, 16, "%a %b %e", tick_time)
FormatDate(t) ==
    Strftime(DateBufferSize,
             WeekdayAbbr(t.wday) \o " " \o MonthAbbr(t.mon) \o " " \o SpacePadded(t.mday))

\* The three snprintf calls of inbox_received_callback
FormatWeather(temperature, conditions) ==
    LET temperature_buffer == Snprintf(TemperatureBufferSize, IntStr(temperature) \o "F")
        conditions_buffer == Snprintf(ConditionsBufferSize, conditions)
    IN  Snprintf(WeatherLayerBufferSize, temperature_buffer \o ", " \o conditions_buffer)

(***************************************************************************)
(* IEEE-754 single precision, for the bar width.  A positive float is the  *)
(* pair <<m, e>> with value m * 2^(-e) and 2^23 <= m < 2^24; operations    *)
(* round to nearest, ties to even.                                         *)
(***************************************************************************)
F32Low == 2^23
F32High == 2^24

\* n / d rounded to an integer, ties to even
RoundHalfEven(n, d) ==
    LET q == n \div d
        r == n % d
    IN  IF 2 * r > d \/ (2 * r = d /\ q % 2 = 1) THEN q + 1 ELSE q

RECURSIVE ScaleUp(_, _, _)
\* the least k >= k0 with a * 2^k >= 2^23 * b
ScaleUp(a, b, k) == IF a * 2^k >= F32Low * b THEN k ELSE ScaleUp(a, b, k + 1)

RECURSIVE ScaleDown(_, _)
\* the least s >= s0 with n < 2^24 * 2^s
ScaleDown(n, s) == IF n \div 2^s < F32High THEN s ELSE ScaleDown(n, s + 1)

\* renormalise after a rounding that carried into bit 24
F32Normal(m, e) == IF m = F32High THEN <<F32Low, e - 1>> ELSE <<m, e>>

\* (float)a / (float)b for 0 < a <= b, both exactly representable
F32Div(a, b) ==
    LET k == ScaleUp(a, b, 0)
    IN  F32Normal(RoundHalfEven(a * 2^k, b), k)

\* x * (float)c for a float x and a small integer c
F32MulInt(x, c) ==
    LET n == x[1] * c
        s == ScaleDown(n, 0)
    IN  F32Normal(RoundHalfEven(n, 2^s), x[2] - s)

\* (int)x for a float x >= 1 or < 1: truncation toward zero
F32ToInt(x) == IF x[2] <= 0 THEN x[1] * 2^(0 - x[2]) ELSE x[1] \div 2^(x[2])

\* Faulty variant of BarWidth: the division done on integers, before the scaling
BarWidth_integer_division(level) == (level \div 100) * BarScale

\* int width = (int)(float)(((float)s_battery_level / 100.0F) * 114.0F)
BarWidth(level) ==
    IF level = 0 THEN 0 ELSE F32ToInt(F32MulInt(F32Div(level, 100), BarScale))

(***************************************************************************)
(* The handles main_window_load creates.                                   *)
(***************************************************************************)
LoadOrder ==
    <<"s_date_layer", "s_date_font", "s_background_bitmap", "s_background_layer",
      "s_time_layer", "s_time_font", "s_weather_layer", "s_weather_font",
      "s_battery_layer", "s_bt_icon_bitmap", "s_bt_icon_layer">>

UnloadOrder ==
    <<"s_time_layer", "s_date_layer", "s_time_font", "s_date_font",
      "s_background_bitmap", "s_background_layer", "s_weather_layer", "s_weather_font",
      "s_battery_layer", "s_bt_icon_bitmap", "s_bt_icon_layer">>

Resources == {LoadOrder[i] : i \in 1..Len(LoadOrder)}

\* The statics before main() runs: null handles, s_battery_level zero, nothing drawn
InitialApp ==
    [handle          |-> [h \in Resources |-> "null"],
     creates         |-> [h \in Resources |-> 0],
     destroys        |-> [h \in Resources |-> 0],
     fault           |-> FALSE,
     time_text       |-> "",
     date_text       |-> "",
     weather_text    |-> "",
     s_battery_level |-> 0,
     battery_dirty   |-> FALSE,
     layer_width     |-> 0,
     track_width     |-> 0,
     bar_width       |-> 0,
     bt_icon_hidden  |-> FALSE,
     vibes           |-> 0,
     outbox_sends    |-> 0]

\* A call that passes handle h to the SDK: a fault unless h is a live object
Use(s, h) == [s EXCEPT !.fault = @ \/ s.handle[h] # "live"]

\* text_layer_create, fonts_load_custom_font, gbitmap_create_with_resource, ...
Create(s, h) == [s EXCEPT !.handle[h] = "live", !.creates[h] = @ + 1]

\* text_layer_destroy, fonts_unload_custom_font, gbitmap_destroy, ...
Destroy(s, h) ==
    [s EXCEPT !.fault = @ \/ s.handle[h] # "live",
              !.handle[h] = "freed",
              !.destroys[h] = @ + 1]

RECURSIVE CreateAll(_, _)
CreateAll(s, hs) == IF hs = <<>> THEN s ELSE CreateAll(Create(s, Head(hs)), Tail(hs))

RECURSIVE DestroyAll(_, _)
DestroyAll(s, hs) == IF hs = <<>> THEN s ELSE DestroyAll(Destroy(s, Head(hs)), Tail(hs))

(***************************************************************************)
(* The handlers, as functions from the state before to the state after.    *)
(***************************************************************************)
\* now is the result of localtime(time(NULL)), is24h that of clock_is_24h_style()
update_time(s, now, is24h) ==
    [Use(Use(s, "s_time_layer"), "s_date_layer") EXCEPT
        !.time_text = FormatTime(now, is24h),
        !.date_text = FormatDate(now)]

\* app_message_outbox_begin, dict_write_uint8, app_message_outbox_send
SendWeatherRequest(s) == [s EXCEPT !.outbox_sends = @ + 1]

\* Faulty variant of tick_handler: the request sent on every tick
tick_handler_every_tick(s, tick_time, now, is24h) ==
    SendWeatherRequest(update_time(s, now, is24h))

tick_handler(s, tick_time, now, is24h) ==
    LET s1 == update_time(s, now, is24h)
    IN  IF tick_time.min % WeatherInterval = 0 THEN SendWeatherRequest(s1) ELSE s1

battery_callback(s, charge_percent) ==
    [Use(s, "s_battery_layer") EXCEPT
        !.s_battery_level = charge_percent,
        !.battery_dirty = TRUE]

\* The update procedure of s_battery_layer: background over the layer's bounds,
\* then the bar from the origin
battery_update_proc(s) ==
    [s EXCEPT !.track_width = s.layer_width,
              !.bar_width = BarWidth(s.s_battery_level)]

\* Faulty variant of bluetooth_callback: the alert only when the icon was hidden,
\* that is on a change from connected to disconnected
bluetooth_callback_on_change(s, connected) ==
    [Use(s, "s_bt_icon_layer") EXCEPT
        !.bt_icon_hidden = connected,
        !.vibes = IF ~connected /\ s.bt_icon_hidden THEN @ + 1 ELSE @]

bluetooth_callback(s, connected) ==
    [Use(s, "s_bt_icon_layer") EXCEPT
        !.bt_icon_hidden = connected,
        !.vibes = IF ~connected THEN @ + 1 ELSE @]

\* peek is the result of connection_service_peek_pebble_app_connection()
main_window_load(s, peek) ==
    bluetooth_callback([CreateAll(s, LoadOrder) EXCEPT !.layer_width = BatteryLayerWidth],
                       peek)

\* Faulty variant of main_window_unload: the bluetooth bitmap is not destroyed
main_window_unload_leaking(s) ==
    DestroyAll(s, SelectSeq(UnloadOrder, LAMBDA h : h # "s_bt_icon_bitmap"))

main_window_unload(s) == DestroyAll(s, UnloadOrder)

\* Faulty variant of inbox_received_callback: || in place of &&
inbox_received_callback_either(s, msg) ==
    IF msg.has_temp \/ msg.has_cond
    THEN [Use(s, "s_weather_layer") EXCEPT
             !.weather_text = FormatWeather(msg.temp, msg.cond)]
    ELSE s

\* msg.has_temp, msg.has_cond: whether dict_find finds the key
inbox_received_callback(s, msg) ==
    IF msg.has_temp /\ msg.has_cond
    THEN [Use(s, "s_weather_layer") EXCEPT
             !.weather_text = FormatWeather(msg.temp, msg.cond)]
    ELSE s

\* APP_LOG only
inbox_dropped_callback(s) == s

\* Faulty variant of outbox_failed_callback: the request is sent again
outbox_failed_callback_retrying(s) == SendWeatherRequest(s)

\* APP_LOG only
outbox_failed_callback(s) == s

\* APP_LOG only
outbox_sent_callback(s) == s

\* window_stack_push(s_main_window, true): the SDK runs the window's load handler
window_stack_push(s, peek) == main_window_load(s, peek)

\* window_destroy(s_main_window): the SDK runs the unload handler of a loaded window
window_destroy(s) == main_window_unload(s)

init(s, bt_peek, now, is24h, battery_peek) ==
    battery_callback(update_time(window_stack_push(s, bt_peek), now, is24h), battery_peek)

deinit(s) == window_destroy(s)

(***************************************************************************)
(* The inputs the host can hand to the handlers.                           *)
(***************************************************************************)
WallTime(hour, min, wday, mon, mday) ==
    [hour |-> hour, min |-> min, wday |-> wday, mon |-> mon, mday |-> mday]

\* Wednesday, March 5, 13:00 .. 13:59
MinuteTimes == {WallTime(13, m, 3, 2, 5) : m \in 0..59}

\* Every day of month, on a Wednesday in March and a Saturday in December,
\* at 00:05, 01:05 and 13:05
CalendarTimes ==
    {WallTime(h, 5, d[1], d[2], mday) :
        h \in {0, 1, 13}, d \in {<<3, 2>>, <<6, 11>>}, mday \in 1..31}

\* The minute after t; the hour is held, so that the clock stays in MinuteTimes
NextMinute(t) == [t EXCEPT !.min = (@ + 1) % 60]

\* BatteryChargeState.charge_percent
Percents == 0..100
SomePercents == {50}

Message(has_temp, temp, has_cond, cond) ==
    [has_temp |-> has_temp, temp |-> temp, has_cond |-> has_cond, cond |-> cond]

\* Inbound dictionaries: complete, missing one field, missing both
SomeMessages ==
    {Message(TRUE, 72, TRUE, "Cloudy"), Message(TRUE, 72, FALSE, ""),
     Message(FALSE, 0, TRUE, "Cloudy"), Message(FALSE, 0, FALSE, "")}

Temperatures == {72, 0, -5, 100, -40, 999999, -99999, 1234567, -123456}
Conditions ==
    {"Cloudy", "Clear", "",
     "Thunderstorm with rain",
     "Thunderstorm with heavy rain",
     "Thunderstorm with light drizzle",
     "Thunderstorm with heavy drizzle and hail"}

\* Every complete inbound dictionary over the values above, and the partial ones
AllMessages ==
    {Message(TRUE, t, TRUE, c) : t \in Temperatures, c \in Conditions}
        \cup {Message(TRUE, t, FALSE, "") : t \in Temperatures}
        \cup {Message(FALSE, 0, TRUE, c) : c \in Conditions}
        \cup {Message(FALSE, 0, FALSE, "")}

Event(kind, arg) == [kind |-> kind, arg |-> arg]

(***************************************************************************)
(* The state before main() runs, with the wall clock in Times.             *)
(***************************************************************************)
InitWith(Times) ==
    /\ pc = "start"
    /\ clock \in Times
    /\ app = InitialApp
    /\ outstanding = 0
    /\ disconnected_reports = 0
    /\ last_event = Event("none", 0)

Init == InitWith(MinuteTimes)

(***************************************************************************)
(* The steps of main(): init, the callbacks of app_event_loop, deinit.     *)
(* Every step adds the requests the handler sent to those outstanding.     *)
(***************************************************************************)
Sent == app'.outbox_sends - app.outbox_sends

\* main() calls init(); the host supplies the peeked connection and battery state
AppInit(Styles, Levels) ==
    /\ pc = "start"
    /\ \E bt_peek \in BOOLEAN, is24h \in Styles, battery_peek \in Levels :
          /\ app' = init(app, bt_peek, clock, is24h, battery_peek)
          /\ disconnected_reports' = disconnected_reports + (IF bt_peek THEN 0 ELSE 1)
          /\ last_event' = Event("init", bt_peek)
    /\ outstanding' = outstanding + Sent
    /\ pc' = "running"
    /\ UNCHANGED clock

\* The tick timer service calls tick_handler with the wall time now
Deliver_tick(now, Styles) ==
    /\ pc = "running"
    /\ now.min % WeatherInterval = 0 => app.outbox_sends < MaxSends
    /\ clock' = now
    /\ \E is24h \in Styles : app' = tick_handler(app, now, now, is24h)
    /\ last_event' = Event("tick", now.min)
    /\ outstanding' = outstanding + Sent
    /\ UNCHANGED <<pc, disconnected_reports>>

\* A minute passes
Tick(Styles) == Deliver_tick(NextMinute(clock), Styles)

\* The wall time is set (by the phone, a time zone, the user) and a tick follows
TickAt(Times, Styles) == \E now \in Times : Deliver_tick(now, Styles)

\* The battery state service calls battery_callback
BatteryChanged(Levels) ==
    /\ pc = "running"
    /\ \E charge_percent \in Levels :
          /\ app' = battery_callback(app, charge_percent)
          /\ last_event' = Event("battery", 0)
    /\ outstanding' = outstanding + Sent
    /\ UNCHANGED <<pc, clock, disconnected_reports>>

\* The host redraws the dirty battery layer through its update procedure
Redraw ==
    /\ pc = "running"
    /\ app.battery_dirty
    /\ app' = [battery_update_proc(app) EXCEPT !.battery_dirty = FALSE]
    /\ last_event' = Event("redraw", 0)
    /\ outstanding' = outstanding + Sent
    /\ UNCHANGED <<pc, clock, disconnected_reports>>

\* The connection service calls bluetooth_callback
BluetoothChanged ==
    /\ pc = "running"
    /\ \E connected \in BOOLEAN :
          /\ ~connected => disconnected_reports < MaxVibes
          /\ app' = bluetooth_callback(app, connected)
          /\ disconnected_reports' = disconnected_reports + (IF connected THEN 0 ELSE 1)
          /\ last_event' = Event("bluetooth", connected)
    /\ outstanding' = outstanding + Sent
    /\ UNCHANGED <<pc, clock>>

\* AppMessage delivers an inbound dictionary
InboxReceived(Msgs) ==
    /\ pc = "running"
    /\ \E msg \in Msgs :
          /\ app' = inbox_received_callback(app, msg)
          /\ last_event' = Event("inbox_received", msg)
    /\ outstanding' = outstanding + Sent
    /\ UNCHANGED <<pc, clock, disconnected_reports>>

\* AppMessage reports an inbound dictionary it had to drop
InboxDropped ==
    /\ pc = "running"
    /\ app' = inbox_dropped_callback(app)
    /\ last_event' = Event("inbox_dropped", 0)
    /\ outstanding' = outstanding + Sent
    /\ UNCHANGED <<pc, clock, disconnected_reports>>

\* AppMessage resolves an outbound request as failed
OutboxFailed ==
    /\ pc = "running"
    /\ outstanding > 0
    /\ app' = outbox_failed_callback(app)
    /\ last_event' = Event("outbox_failed", 0)
    /\ outstanding' = outstanding - 1 + Sent
    /\ UNCHANGED <<pc, clock, disconnected_reports>>

\* AppMessage resolves an outbound request as sent
OutboxSent ==
    /\ pc = "running"
    /\ outstanding > 0
    /\ app' = outbox_sent_callback(app)
    /\ last_event' = Event("outbox_sent", 0)
    /\ outstanding' = outstanding - 1 + Sent
    /\ UNCHANGED <<pc, clock, disconnected_reports>>

\* app_event_loop returns and main() calls deinit()
AppExit ==
    /\ pc = "running"
    /\ app' = deinit(app)
    /\ last_event' = Event("deinit", 0)
    /\ pc' = "exited"
    /\ UNCHANGED <<clock, outstanding, disconnected_reports>>

(***************************************************************************)
(* Specifications.  Spec runs every handler as the minutes of an hour      *)
(* pass; the others widen one input and keep what that input reaches.      *)
(***************************************************************************)
Next ==
    \/ AppInit({TRUE}, SomePercents)
    \/ Tick({TRUE})
    \/ BatteryChanged(SomePercents)
    \/ Redraw
    \/ BluetoothChanged
    \/ InboxReceived(SomeMessages)
    \/ InboxDropped
    \/ OutboxFailed
    \/ OutboxSent
    \/ AppExit

Spec == Init /\ [][Next]_vars

NextBattery ==
    \/ AppInit({TRUE}, Percents)
    \/ BatteryChanged(Percents)
    \/ Redraw
    \/ AppExit

SpecBattery == InitWith({WallTime(13, 5, 3, 2, 5)}) /\ [][NextBattery]_vars

NextWeather ==
    \/ AppInit({TRUE}, {50})
    \/ InboxReceived(AllMessages)
    \/ InboxDropped
    \/ AppExit

SpecWeather == InitWith({WallTime(13, 5, 3, 2, 5)}) /\ [][NextWeather]_vars

NextCalendar ==
    \/ AppInit(BOOLEAN, {50})
    \/ TickAt(CalendarTimes, BOOLEAN)
    \/ AppExit

SpecCalendar == InitWith(CalendarTimes) /\ [][NextCalendar]_vars

(***************************************************************************)
(* Properties.                                                             *)
(***************************************************************************)
CompleteMessage(e) == e.kind = "inbox_received" /\ e.arg.has_temp /\ e.arg.has_cond

HalfHourTick(e) == e.kind = "tick" /\ e.arg % WeatherInterval = 0

\* C1: a step sends exactly one weather request when it is a tick whose minute
\* is a multiple of 30, and sends none when it is any other tick or any other
\* handler (init, battery, redraw, bluetooth, inbox and outbox callbacks, deinit).
C1_RequestIffHalfHourTick ==
    [][Sent = IF HalfHourTick(last_event') THEN 1 ELSE 0]_vars

\* C1 happens: the 13:30 tick has sent the first request
C1_Witness ==
    /\ last_event = Event("tick", 30)
    /\ app.outbox_sends = 1
    /\ outstanding = 1

\* C2: the weather text changes only in a step that delivers an inbound message
\* carrying both TEMPERATURE and CONDITIONS; a message missing either field, and
\* every other event, leaves it as it was.
C2_WeatherTextOnlyByCompleteMessage ==
    [][app'.weather_text # app.weather_text => CompleteMessage(last_event')]_vars

\* C2 happens: a message without CONDITIONS has arrived after a complete one
C2_Witness ==
    /\ last_event.kind = "inbox_received"
    /\ last_event.arg.has_temp
    /\ ~last_event.arg.has_cond
    /\ app.weather_text = "72F, Cloudy"

\* C3: after a complete inbound message with temperature t and conditions c the
\* weather text is the decimal rendering of t, then "F, ", then c, nothing cut off.
C3_WeatherTextExact ==
    CompleteMessage(last_event) =>
        app.weather_text = IntStr(last_event.arg.temp) \o "F, " \o last_event.arg.cond

\* C4: the number of double pulses issued equals the number of bluetooth_callback
\* invocations with connected = false, the peek of main_window_load included.
C4_PulsePerDisconnectedReport == app.vibes = disconnected_reports

\* C4 happens: a second disconnected report in a row has pulsed again
C4_Witness ==
    /\ last_event = Event("bluetooth", FALSE)
    /\ disconnected_reports = 2
    /\ app.vibes = 2

\* The battery layer shows the stored level
BarDrawn == last_event.kind = "redraw" /\ ~app.battery_dirty

\* C5: the bar width is non-decreasing in the battery percent, is 0 at 0 percent
\* and is the full width of the track (the painted background) at 100 percent.
C5_BarSpansTrack ==
    BarDrawn =>
        /\ \A p \in Percents : p <= app.s_battery_level => BarWidth(p) <= app.bar_width
        /\ app.s_battery_level = 0 => app.bar_width = 0
        /\ app.s_battery_level = 100 => app.bar_width = app.track_width

\* C6 as claimed: the bar width is percent / 100 * 114 rounded to the nearest pixel.
C6_BarWidthRounded ==
    BarDrawn => app.bar_width = (app.s_battery_level * BarScale + 50) \div 100

\* C6 as amended: the bar width is percent / 100 * 114 with the fraction dropped.
C6_BarWidthTruncated ==
    BarDrawn => app.bar_width = (app.s_battery_level * BarScale) \div 100

\* C6 happens: 5 percent is 5.7 pixels and is drawn 5 wide
C6_Witness == BarDrawn /\ app.s_battery_level = 5 /\ app.bar_width = 5

\* The date on screen is that of the wall time last read
DateShown == pc # "start"

\* C7 as claimed: the date text is weekday, space, month, space, day of month
\* without padding.
C7_DateUnpadded ==
    DateShown =>
        app.date_text = WeekdayAbbr(clock.wday) \o " " \o MonthAbbr(clock.mon)
                            \o " " \o NatStr(clock.mday)

\* C7 as amended: the day of month is two characters wide, padded on the left
\* with a space, so the days 1..9 follow two spaces.
C7_DateSpacePadded ==
    DateShown =>
        app.date_text = WeekdayAbbr(clock.wday) \o " " \o MonthAbbr(clock.mon)
                            \o (IF clock.mday < 10 THEN "  " ELSE " ") \o NatStr(clock.mday)

\* C7 happens: a tick on Wednesday, March 5
C7_Witness ==
    /\ last_event.kind = "tick"
    /\ clock.wday = 3 /\ clock.mon = 2 /\ clock.mday = 5
    /\ app.date_text = "Wed Mar  5"

\* C8: at most one outbound request is outstanding at any time.
C8_AtMostOneOutstanding == outstanding <= 1

\* What the display shows and what the program has stored
Display(s) ==
    <<s.time_text, s.date_text, s.weather_text, s.s_battery_level, s.bt_icon_hidden>>

\* C9: the inbox-dropped and outbox-failed callbacks leave time, date, weather
\* text, battery level and icon visibility unchanged and send no request; a
\* request is sent only by a tick whose minute is a multiple of 30.
C9_FailuresOnlyLog ==
    [][/\ last_event'.kind \in {"inbox_dropped", "outbox_failed"} =>
              Display(app') = Display(app) /\ Sent = 0
       /\ Sent > 0 => HalfHourTick(last_event')]_vars

\* C9 happens: a request has failed, the weather text of an earlier message is
\* still shown and nothing is outstanding
C9_Witness ==
    /\ last_event.kind = "outbox_failed"
    /\ app.weather_text = "72F, Cloudy"
    /\ app.outbox_sends = 1
    /\ outstanding = 0

\* C10: no handler passes a handle that is not a live object; every one of the
\* 11 resources is created once, is live while the event loop runs, and is
\* destroyed exactly once by the time main() has exited.
C10_HandlesLiveWhileUsed ==
    /\ ~app.fault
    /\ Cardinality(Resources) = 11
    /\ \A h \in Resources :
          /\ pc = "start" => app.creates[h] = 0 /\ app.destroys[h] = 0
          /\ pc = "running" =>
                app.creates[h] = 1 /\ app.destroys[h] = 0 /\ app.handle[h] = "live"
          /\ pc = "exited" =>
                app.creates[h] = 1 /\ app.destroys[h] = 1 /\ app.handle[h] = "freed"

\* C10 happens: main() has exited after callbacks ran
C10_Witness ==
    /\ pc = "exited"
    /\ app.weather_text # ""
    /\ app.outbox_sends > 0
    /\ \A h \in Resources : app.destroys[h] = 1

====
